---------------------------- MODULE Spec2Model ----------------------------
(***************************************************************************)
(* Model of the @welshare/sdk client-side bucketed aggregation engine      *)
(* (time-buckets.ts, group-by.ts, collection-stats.ts, nillion/client.ts)  *)
(* and of the CLI commands that drive it.                                  *)
(*                                                                         *)
(* Data representation                                                     *)
(*   Date object     [kind, day, ms]: kind "date" (time value day *        *)
(*                   86400000 + ms), "invalid" (an Invalid Date, time value*)
(*                   NaN) or "undefined" (the JS value undefined, where a  *)
(*                   Date is expected).                                    *)
(*   string          the sequence of its UTF-16 code units; field names,   *)
(*                   granularities and labels, which the code only compares*)
(*                   for equality, are TLA+ strings.                       *)
(*   record field    [present, str]: present = FALSE is undefined/null.    *)
(***************************************************************************)
EXTENDS Integers, Sequences, FiniteSets, TLC

\* ------------------------------------------------------------------ bounds
\* Longest input array handed to aggregateBucketedCounts.
MaxRecords == 2
\* Sample instants are Origin + k * step, k in 0 .. MaxTick.
MaxTick == 2
\* The bucket calculus is called on instants of days OriginDay .. OriginDay + MaxDay
\* (.. OriginDay + MaxHourDay when the granularity is hour).
MaxDay == 8
MaxHourDay == 1

\* ------------------------------------------------------- ECMAScript Date
MsPerSecond == 1000
MsPerMinute == 60 * MsPerSecond
MsPerHour == 60 * MsPerMinute
MsPerDay == 24 * MsPerHour

\* A Date's time value t is held as the pair (Day(t), TimeWithinDay(t)) of
\* ECMAScript, t = day * MsPerDay + ms with 0 <= ms < MsPerDay.
MkDate(day, ms) == [kind |-> "date", day |-> day, ms |-> ms]
InvalidDate == [kind |-> "invalid", day |-> 0, ms |-> 0]
UndefinedValue == [kind |-> "undefined", day |-> 0, ms |-> 0]

\* The Date delta milliseconds after (before) d.
AddMs(d, delta) ==
  MkDate(d.day + ((d.ms + delta) \div MsPerDay), (d.ms + delta) % MsPerDay)

\* Relational comparison of two values by their time values: any comparison
\* with NaN (Invalid Date, or undefined converted to a number) is false.
DateLt(a, b) ==
  /\ a.kind = "date" /\ b.kind = "date"
  /\ (a.day < b.day \/ (a.day = b.day /\ a.ms < b.ms))
DateGe(a, b) ==
  /\ a.kind = "date" /\ b.kind = "date"
  /\ (a.day > b.day \/ (a.day = b.day /\ a.ms >= b.ms))

\* WeekDay(t) of ECMAScript: day 0 (1970-01-01) is a Thursday.
getUTCDay(d) == (d.day + 4) % 7

\* Civil date <<year, month, day>> of a day number (proleptic Gregorian
\* calendar, UTC), by 400-year era: doe is the day of the era, yoe the year of
\* the era, doy the day of the year counted from 1 March and mp its month.
YearOfEra(doe) == (doe - doe \div 1460 + doe \div 36524 - doe \div 146096) \div 365
DayOfYear(doe, yoe) == doe - (365 * yoe + yoe \div 4 - yoe \div 100)
MonthIndex(doy) == (5 * doy + 2) \div 153
CivilOf(era, yoe, doy, mp) ==
  <<yoe + era * 400 + (IF mp >= 10 THEN 1 ELSE 0),
    IF mp < 10 THEN mp + 3 ELSE mp - 9,
    doy - (153 * mp + 2) \div 5 + 1>>
CivilOfEra(era, doe, yoe) ==
  CivilOf(era, yoe, DayOfYear(doe, yoe), MonthIndex(DayOfYear(doe, yoe)))
CivilFromDays(n) ==
  CivilOfEra((n + 719468) \div 146097, (n + 719468) % 146097,
             YearOfEra((n + 719468) % 146097))

\* Day number of a civil date.
DaysFromCivil(y0, m, d) ==
  LET y == IF m <= 2 THEN y0 - 1 ELSE y0
      era == y \div 400
      yoe == y - era * 400
      doy == (153 * (IF m > 2 THEN m - 3 ELSE m + 9) + 2) \div 5 + d - 1
      doe == yoe * 365 + yoe \div 4 - yoe \div 100 + doy
  IN era * 146097 + doe - 719468

\* The numeric fields of a valid Date: year, month, day, hour, minute, second
\* and millisecond, in UTC.
IsoFields(d) ==
  CivilFromDays(d.day)
  \o <<d.ms \div MsPerHour, (d.ms % MsPerHour) \div MsPerMinute,
       (d.ms % MsPerMinute) \div MsPerSecond, d.ms % MsPerSecond>>

\* Decimal digits of n, zero-padded, as code units ("0" is 48).
Digits2(n) == <<48 + (n \div 10), 48 + (n % 10)>>
Digits3(n) == <<48 + (n \div 100)>> \o Digits2(n % 100)
Digits4(n) == <<48 + (n \div 1000)>> \o Digits3(n % 1000)

\* Date.prototype.toISOString of a valid Date of the years 0000 .. 9999: the 24
\* code units of YYYY-MM-DDTHH:mm:ss.sssZ.
FormatIso(f) ==
  Digits4(f[1]) \o <<45>> \o Digits2(f[2]) \o <<45>> \o Digits2(f[3]) \o <<84>>
  \o Digits2(f[4]) \o <<58>> \o Digits2(f[5]) \o <<58>> \o Digits2(f[6])
  \o <<46>> \o Digits3(f[7]) \o <<90>>
IsoString(d) == FormatIso(IsoFields(d))

\* d.toISOString(): throws a RangeError on an Invalid Date and a TypeError when
\* d is undefined.
toISOString(d) ==
  CASE d.kind = "date" -> [outcome |-> "ok", str |-> IsoString(d)]
    [] d.kind = "invalid" -> [outcome |-> "RangeError", str |-> <<>>]
    [] OTHER -> [outcome |-> "TypeError", str |-> <<>>]

\* The number written by the digits s[i .. j]; -1 when one of them is no digit.
RECURSIVE NumberAt(_, _, _)
NumberAt(s, i, j) ==
  IF s[j] \notin 48 .. 57 THEN -1
  ELSE IF i = j THEN s[j] - 48
  ELSE LET hi == NumberAt(s, i, j - 1)
       IN IF hi < 0 THEN -1 ELSE hi * 10 + (s[j] - 48)

\* The forms of the ECMAScript date-time format new Date(string) is given:
\* YYYY-MM-DD, YYYY-MM-DDTHH:mm:ssZ and YYYY-MM-DDTHH:mm:ss.sssZ.
HasDatePart(s) == Len(s) >= 10 /\ s[5] = 45 /\ s[8] = 45
HasTimePart(s) == Len(s) >= 20 /\ s[11] = 84 /\ s[14] = 58 /\ s[17] = 58
IsDateTimeForm(s) ==
  \/ Len(s) = 10 /\ HasDatePart(s)
  \/ Len(s) = 20 /\ HasDatePart(s) /\ HasTimePart(s) /\ s[20] = 90
  \/ Len(s) = 24 /\ HasDatePart(s) /\ HasTimePart(s) /\ s[20] = 46 /\ s[24] = 90

\* The fields <<y, mo, d, h, mi, s, ms>> a string of one of these forms
\* denotes (-1 for a field that is not written in digits); <<>> for any other
\* string.
DateOnlyFields(s) == <<NumberAt(s, 1, 4), NumberAt(s, 6, 7), NumberAt(s, 9, 10)>>
TimeFields(s) ==
  IF Len(s) = 10 THEN <<0, 0, 0, 0>>
  ELSE <<NumberAt(s, 12, 13), NumberAt(s, 15, 16), NumberAt(s, 18, 19),
         IF Len(s) = 24 THEN NumberAt(s, 21, 23) ELSE 0>>
ParseFields(s) ==
  IF IsDateTimeForm(s) THEN DateOnlyFields(s) \o TimeFields(s) ELSE <<>>

\* Fields new Date(...) accepts: in range, and the day one of the month.
FieldsInRange(f) ==
  /\ f # <<>>
  /\ f[1] >= 0
  /\ f[2] \in 1 .. 12 /\ f[3] \in 1 .. 31
  /\ f[4] \in 0 .. 23 /\ f[5] \in 0 .. 59 /\ f[6] \in 0 .. 59 /\ f[7] \in 0 .. 999
  /\ CivilFromDays(DaysFromCivil(f[1], f[2], f[3])) = <<f[1], f[2], f[3]>>

\* A string that new Date(...) parses.
IsIsoString(s) == FieldsInRange(ParseFields(s))

\* new Date(string): the instant of a parseable string, else Invalid Date.
DateOfFields(f) ==
  IF FieldsInRange(f)
  THEN MkDate(DaysFromCivil(f[1], f[2], f[3]),
              f[4] * MsPerHour + f[5] * MsPerMinute + f[6] * MsPerSecond + f[7])
  ELSE InvalidDate
ParseDate(s) == DateOfFields(ParseFields(s))

\* A value that is a string or a Date object (the type Date | string).
StringValue(s) == [type |-> "string", str |-> s, date |-> InvalidDate]
DateValue(d) == [type |-> "object", str |-> <<>>, date |-> d]

\* toDate(value): new Date(value) for a string, the value itself otherwise.
toDate(value) == IF value.type = "string" THEN ParseDate(value.str) ELSE value.date

\* ------------------------------------------------------- time-buckets.ts
TimeBucket == {"hour", "day", "week"}

\* floorToBucket with the week roll-back computed as dayOfWeek - 1 on every day,
\* Sunday (0) included.
floorToBucketNoSundayCase(date, bucket) ==
  IF bucket \notin TimeBucket THEN UndefinedValue
  ELSE IF date.kind # "date" THEN InvalidDate
  ELSE LET midnight == MkDate(date.day, 0)
           diff == getUTCDay(midnight) - 1
       IN CASE bucket = "hour" -> MkDate(date.day, date.ms - (date.ms % MsPerHour))
            [] bucket = "day" -> midnight
            [] bucket = "week" -> MkDate(midnight.day - diff, 0)

\* floorToBucket with weeks starting on Sunday: the roll-back is dayOfWeek days.
floorToBucketSundayStart(date, bucket) ==
  IF bucket \notin TimeBucket THEN UndefinedValue
  ELSE IF date.kind # "date" THEN InvalidDate
  ELSE CASE bucket = "hour" -> MkDate(date.day, date.ms - (date.ms % MsPerHour))
         [] bucket = "day" -> MkDate(date.day, 0)
         [] bucket = "week" -> MkDate(date.day - getUTCDay(MkDate(date.day, 0)), 0)

\* floorToBucket(date, bucket): the returned Date.  A bucket outside the
\* switch's cases falls through and returns undefined; the setters leave an
\* Invalid Date invalid.
floorToBucket(date, bucket) ==
  IF bucket \notin TimeBucket THEN UndefinedValue
  ELSE IF date.kind # "date" THEN InvalidDate
  ELSE LET midnight == MkDate(date.day, 0)
           dayOfWeek == getUTCDay(midnight)
           diff == IF dayOfWeek = 0 THEN 6 ELSE dayOfWeek - 1
       IN CASE bucket = "hour" -> MkDate(date.day, date.ms - (date.ms % MsPerHour))
            [] bucket = "day" -> midnight
            [] bucket = "week" -> MkDate(midnight.day - diff, 0)

\* The Date object `date` as floorToBucket(date, bucket) leaves it: the function
\* works on a copy, const d = new Date(date.getTime()), and never writes to date.
floorToBucketAliased(date, bucket) == floorToBucket(date, bucket)
floorToBucketArg(date, bucket) == date

\* advanceBucket(date, bucket): one hour, one UTC day or seven UTC days later.
advanceBucket(date, bucket) ==
  IF bucket \notin TimeBucket THEN UndefinedValue
  ELSE IF date.kind # "date" THEN InvalidDate
  ELSE CASE bucket = "hour" -> AddMs(date, MsPerHour)
         [] bucket = "day" -> MkDate(date.day + 1, date.ms)
         [] bucket = "week" -> MkDate(date.day + 7, date.ms)

\* generateBucketRanges(from, to, bucket): the while loop, cursor starting at
\* floorToBucket(from, bucket); `ranges` is the array built so far.  Inside the
\* loop cursor < to holds, so cursor and next are valid and toISOString returns.
RECURSIVE BucketLoop(_, _, _, _)
BucketLoop(cursor, to, bucket, ranges) ==
  IF DateLt(cursor, to)
  THEN LET next == advanceBucket(cursor, bucket)
       IN BucketLoop(next, to, bucket,
                     Append(ranges, [start |-> toISOString(cursor).str,
                                     end |-> toISOString(next).str]))
  ELSE ranges

\* generateBucketRanges with the cursor starting at `from` itself.
generateBucketRangesUnfloored(from, to, bucket) == BucketLoop(from, to, bucket, <<>>)

generateBucketRanges(from, to, bucket) ==
  BucketLoop(floorToBucket(from, bucket), to, bucket, <<>>)

\* bucketKey(timestamp, bucket) for a string timestamp: the toISOString result
\* (returned string or thrown error) of the floored date.
bucketKeyUnfloored(timestamp, bucket) == toISOString(toDate(StringValue(timestamp)))
bucketKey(timestamp, bucket) ==
  toISOString(floorToBucket(toDate(StringValue(timestamp)), bucket))

\* ------------------------------------------------------------ group-by.ts
\* A record field: a string value, or undefined/null (present = FALSE).
StringField(s) == [present |-> TRUE, str |-> s]
UndefinedField == [present |-> FALSE, str |-> <<>>]

\* r[field] on a record held as a function from field names to fields.
GetField(r, field) == IF field \in DOMAIN r THEN r[field] ELSE UndefinedField

\* The code units of "unknown" and of the "||" of compositeKey.
UnknownGroup == <<117, 110, 107, 110, 111, 119, 110>>
KeySeparator == <<124, 124>>

\* compositeKey(bucket, group): `${bucket}||${group}`.
compositeKey(bucket, group) == bucket \o KeySeparator \o group

\* String(r[groupField]) without the ?? "unknown": the key "undefined" for a
\* missing field.
GroupKeyOfUndefined(r, groupField) ==
  IF groupField \in DOMAIN r /\ r[groupField].present THEN r[groupField].str
  ELSE <<117, 110, 100, 101, 102, 105, 110, 101, 100>>

\* String(r[groupField] ?? "unknown").
GroupKeyOf(r, groupField) ==
  LET v == GetField(r, groupField)
  IN IF v.present THEN v.str ELSE UnknownGroup

\* a < b for strings, by UTF-16 code units (the order of Array.prototype.sort
\* without a comparator, and of the < operator on strings).
RECURSIVE StringLt(_, _)
StringLt(a, b) ==
  IF b = <<>> THEN FALSE
  ELSE IF a = <<>> THEN TRUE
  ELSE IF Head(a) # Head(b) THEN Head(a) < Head(b)
  ELSE StringLt(Tail(a), Tail(b))

\* Whether x is an element of sequence s (Set.prototype.has, Array includes).
Contains(s, x) == \E i \in 1 .. Len(s) : s[i] = x

\* array.sort() of an array of strings: insertion of each element in turn
\* before the first element greater than it.
RECURSIVE InsertSorted(_, _)
InsertSorted(sorted, x) ==
  IF sorted = <<>> THEN <<x>>
  ELSE IF StringLt(x, Head(sorted)) THEN <<x>> \o sorted
  ELSE <<Head(sorted)>> \o InsertSorted(Tail(sorted), x)

RECURSIVE SortFrom(_, _)
SortFrom(arr, sorted) ==
  IF arr = <<>> THEN sorted
  ELSE SortFrom(Tail(arr), InsertSorted(sorted, Head(arr)))

\* The array left in insertion order.
SortStringsAsGiven(arr) == arr

SortStrings(arr) == SortFrom(arr, <<>>)

\* Step 1, the first loop: groupSet after records[1 .. n] were scanned.  A JS
\* Set keeps insertion order, so it is held as a duplicate-free sequence.
RECURSIVE SeedLoop(_, _, _)
SeedLoop(records, groupField, n) ==
  IF n = 0 THEN <<>>
  ELSE LET seen == SeedLoop(records, groupField, n - 1)
           gk == GroupKeyOf(records[n], groupField)
       IN IF Contains(seen, gk) THEN seen ELSE Append(seen, gk)

SeedGroupsSkipLast(records, groupField) ==
  SeedLoop(records, groupField, IF Len(records) = 0 THEN 0 ELSE Len(records) - 1)

\* The first loop stopping after the first record.
SeedGroupsFirstOnly(records, groupField) ==
  SeedLoop(records, groupField, IF Len(records) = 0 THEN 0 ELSE 1)

\* No first loop: groupSet starts empty.
SeedGroupsNone(records, groupField) == <<>>

\* Step 1: groupSet after the first loop.
SeedGroups(records, groupField) == SeedLoop(records, groupField, Len(records))

\* const groups = [...groupSet].sort()
InitialGroupsUnsorted(groupSet) == groupSet
InitialGroups(groupSet) == SortStrings(groupSet)

\* counts.get(key) ?? 0 and counts.set(key, value) on a Map held as a function.
MapGet(m, key) == IF key \in DOMAIN m THEN m[key] ELSE 0
MapSet(m, key, value) ==
  [k \in DOMAIN m \cup {key} |-> IF k = key THEN value ELSE m[k]]

\* Step 2: the dense skeleton, a 0 for every (range, group).
Skeleton(bucketRanges, groups) ==
  [k \in {compositeKey(bucketRanges[i].start, groups[j]) :
            i \in 1 .. Len(bucketRanges), j \in 1 .. Len(groups)} |-> 0]

\* Back-fill of a newly discovered group gk: a 0 for every range.
BackFill(counts, bucketRanges, gk) ==
  [k \in DOMAIN counts \cup {compositeKey(bucketRanges[i].start, gk) :
                               i \in 1 .. Len(bucketRanges)} |->
     IF \E i \in 1 .. Len(bucketRanges) : k = compositeKey(bucketRanges[i].start, gk)
     THEN 0 ELSE counts[k]]

\* The range check of line 65: d < from || d >= to.
OutOfRangeInclusiveTo(d, from, to) == DateLt(d, from) \/ DateLt(to, d)
OutOfRange(d, from, to) == DateLt(d, from) \/ DateGe(d, to)

\* Step 3, one iteration of the counting loop on record r.  acc holds the
\* loop's variables: groupSet, groups, counts, totalCount; outcome is "ok" until
\* an exception leaves the function; backfilled records whether the
\* late-discovery branch (lines 71-79) was ever taken.
CountStep(acc, r, timestampField, groupField, bucket, from, to, bucketRanges) ==
  LET ts == GetField(r, timestampField)
      d == toDate(StringValue(ts.str))
      bk == bucketKey(ts.str, bucket)
      gk == GroupKeyOf(r, groupField)
      late == ~Contains(acc.groupSet, gk)
      groupSet1 == IF late THEN Append(acc.groupSet, gk) ELSE acc.groupSet
      groups1 == IF late THEN SortStrings(Append(acc.groups, gk)) ELSE acc.groups
      counts1 == IF late THEN BackFill(acc.counts, bucketRanges, gk) ELSE acc.counts
      key == compositeKey(bk.str, gk)
  IN IF acc.outcome # "ok" THEN acc
     ELSE IF ~ts.present THEN acc
     ELSE IF OutOfRange(d, from, to) THEN acc
     ELSE IF bk.outcome # "ok" THEN [acc EXCEPT !.outcome = bk.outcome]
     ELSE [outcome |-> "ok",
           groupSet |-> groupSet1,
           groups |-> groups1,
           counts |-> MapSet(counts1, key, MapGet(counts1, key) + 1),
           totalCount |-> acc.totalCount + 1,
           backfilled |-> acc.backfilled \/ late]

RECURSIVE CountLoop(_, _, _, _, _, _, _, _, _)
CountLoop(acc, records, n, timestampField, groupField, bucket, from, to, bucketRanges) ==
  IF n = 0 THEN acc
  ELSE CountStep(CountLoop(acc, records, n - 1, timestampField, groupField,
                           bucket, from, to, bucketRanges),
                 records[n], timestampField, groupField, bucket, from, to,
                 bucketRanges)

\* Step 4: the n-th object pushed by the nested loops, ranges outer and groups
\* inner (G = groups.length).
CellAt(bucketRanges, groups, counts, n) ==
  LET G == Len(groups)
      range == bucketRanges[((n - 1) \div G) + 1]
      g == groups[((n - 1) % G) + 1]
  IN [bucketStart |-> range.start,
      bucketEnd |-> range.end,
      group |-> g,
      count |-> MapGet(counts, compositeKey(range.start, g))]

\* The cells pushed with the loops nested the other way round: groups outer,
\* buckets inner.
FlattenGroupMajor(bucketRanges, groups, counts) ==
  [n \in 1 .. Len(bucketRanges) * Len(groups) |->
     LET range == bucketRanges[((n - 1) % Len(bucketRanges)) + 1]
         g == groups[((n - 1) \div Len(bucketRanges)) + 1]
     IN [bucketStart |-> range.start, bucketEnd |-> range.end, group |-> g,
         count |-> MapGet(counts, compositeKey(range.start, g))]]

IsObserved(cell) == cell.count > 0
FlattenSparse(bucketRanges, groups, counts) ==
  SelectSeq([n \in 1 .. Len(bucketRanges) * Len(groups) |->
               CellAt(bucketRanges, groups, counts, n)], IsObserved)
Flatten(bucketRanges, groups, counts) ==
  [n \in 1 .. Len(bucketRanges) * Len(groups) |->
     CellAt(bucketRanges, groups, counts, n)]

\* The return statement: outcome "ok" with the returned buckets, groups and
\* totalCount, or the name of the exception that left the loop.
AggregateReturn(bucketRanges, acc) ==
  IF acc.outcome = "ok"
  THEN [outcome |-> "ok",
        buckets |-> Flatten(bucketRanges, acc.groups, acc.counts),
        groups |-> acc.groups,
        totalCount |-> acc.totalCount,
        backfilled |-> acc.backfilled]
  ELSE [outcome |-> acc.outcome, buckets |-> <<>>, groups |-> <<>>,
        totalCount |-> 0, backfilled |-> acc.backfilled]

\* The loop variables when the counting loop starts.
AggregateStart(groupSet, groups, bucketRanges) ==
  [outcome |-> "ok",
   groupSet |-> groupSet,
   groups |-> groups,
   counts |-> Skeleton(bucketRanges, groups),
   totalCount |-> 0,
   backfilled |-> FALSE]

\* Steps 1 to 4 with the ranges of step 2 given.
AggregateOver(records, timestampField, groupField, bucket, from, to, bucketRanges) ==
  AggregateReturn(
    bucketRanges,
    CountLoop(AggregateStart(SeedGroups(records, groupField),
                             InitialGroups(SeedGroups(records, groupField)),
                             bucketRanges),
              records, Len(records), timestampField, groupField, bucket, from, to,
              bucketRanges))

\* aggregateBucketedCounts(input).
aggregateBucketedCounts(records, timestampField, groupField, bucket, from, to) ==
  AggregateOver(records, timestampField, groupField, bucket, from, to,
                generateBucketRanges(from, to, bucket))

\* ------------------------------------------------------ nillion/client.ts
COLLECTIONS ==
  [QUESTIONNAIRE_RESPONSES |-> "questionnaire_responses", BINARY_FILES |-> "binary_files"]

\* The conditions of a NillionFilter: an operator object {$gte, $lt} or an
\* exact-match scalar.
RangeCondition(gte, lt) == [op |-> "range", gte |-> gte, lt |-> lt, eq |-> <<>>]
EqCondition(v) == [op |-> "eq", gte |-> <<>>, lt |-> <<>>, eq |-> v]

\* Whether the callback of all.filter keeps the record as far as one entry of
\* the filter goes.  The operators compare strings by code units; a comparison
\* with an undefined value is false, so it excludes nothing.
EntryKeeps(value, condition) ==
  IF condition.op = "range"
  THEN /\ ~(value.present /\ StringLt(value.str, condition.gte))
       /\ ~(value.present /\ ~StringLt(value.str, condition.lt))
  ELSE value.present /\ value.str = condition.eq

\* store.get(collectionName) ?? []
StoreGet(store, collectionName) ==
  IF collectionName \in DOMAIN store THEN store[collectionName] ELSE <<>>

\* InMemoryCollectionReader.seed(collectionName, records): the store afterwards.
seed(store, collectionName, records) ==
  [c \in DOMAIN store \cup {collectionName} |->
     IF c = collectionName THEN StoreGet(store, collectionName) \o records
     ELSE store[c]]

\* InMemoryCollectionReader.findRecords(collectionName, filter): the array the
\* returned promise resolves with.
findRecords(store, collectionName, filter) ==
  SelectSeq(StoreGet(store, collectionName),
            LAMBDA record :
              \A key \in DOMAIN filter : EntryKeeps(GetField(record, key), filter[key]))

\* ----------------------------------------------------- collection-stats.ts
\* What the two methods of CollectionStats differ in, with the group fields the
\* command of the family accepts.  idFields are the fields of the two optional
\* identifier lists of the query (applicationIds and publisherIds, uploaderDids
\* and contentTypes).
QuestionnaireResponses ==
  [collection |-> COLLECTIONS.QUESTIONNAIRE_RESPONSES,
   timestampField |-> "submitted_at",
   defaultGroupBy |-> "application_id",
   idFields |-> <<"application_id", "publisher_id">>,
   label |-> "Questionnaire responses",
   validGroupBy |-> <<"application_id", "publisher_id">>]
BinaryUploadsAsSubmissions ==
  [collection |-> COLLECTIONS.BINARY_FILES,
   timestampField |-> "uploaded_at",
   defaultGroupBy |-> "application_id",
   idFields |-> <<"uploader_did", "content_type">>,
   label |-> "Binary file uploads",
   validGroupBy |-> <<"uploader_did", "application_id">>]
BinaryUploads ==
  [collection |-> COLLECTIONS.BINARY_FILES,
   timestampField |-> "uploaded_at",
   defaultGroupBy |-> "uploader_did",
   idFields |-> <<"uploader_did", "content_type">>,
   label |-> "Binary file uploads",
   validGroupBy |-> <<"uploader_did", "application_id">>]

\* An optional property is <<>> (undefined) or <<its value>>.  A query is
\* [range, bucket, groupBy, ids1, ids2], the range a pair [from, to] of values
\* that are strings or Dates.
EmptyQuery == [range |-> <<>>, bucket |-> <<>>, groupBy |-> <<>>, ids1 |-> <<>>, ids2 |-> <<>>]

\* list?.length, -1 standing for undefined.
OptLength(opt) == IF opt = <<>> THEN -1 ELSE Len(opt[1])

\* defaultRange() and resolveRange(range), new Date() returning now.
defaultRange(now) == [from |-> AddMs(now, 0 - MsPerDay), to |-> now]
resolveRange(range, now) ==
  IF range = <<>> THEN defaultRange(now)
  ELSE [from |-> toDate(range[1].from), to |-> toDate(range[1].to)]

\* What a rejected promise or a throw carries: the error's name and, for the
\* errors of parseArgs, the value and the list its message quotes.
NoDetail == [value |-> "", valid |-> <<>>]
Thrown(name, detail) ==
  [outcome |-> name, detail |-> detail, label |-> "",
   range |-> [from |-> <<>>, to |-> <<>>], bucket |-> "", groupBy |-> "",
   totalCount |-> 0, groups |-> <<>>, buckets |-> <<>>]

\* The filter with an equality on the first value of every non-empty identifier
\* list, whatever its length.
BuildFilterFirstValue(family, query, gte, lt) ==
  [key \in {family.timestampField}
           \cup (IF OptLength(query.ids1) >= 1 THEN {family.idFields[1]} ELSE {})
           \cup (IF OptLength(query.ids2) >= 1 THEN {family.idFields[2]} ELSE {}) |->
     IF key = family.timestampField THEN [op |-> "range", gte |-> gte, lt |-> lt, eq |-> <<>>]
     ELSE IF key = family.idFields[1] /\ OptLength(query.ids1) >= 1
     THEN [op |-> "eq", gte |-> <<>>, lt |-> <<>>, eq |-> query.ids1[1][1]]
     ELSE [op |-> "eq", gte |-> <<>>, lt |-> <<>>, eq |-> query.ids2[1][1]]]

\* The filter built before the fetch: the range on the timestamp field and an
\* equality for each identifier list of length 1.
BuildFilter(family, query, gte, lt) ==
  [key \in {family.timestampField}
           \cup (IF OptLength(query.ids1) = 1 THEN {family.idFields[1]} ELSE {})
           \cup (IF OptLength(query.ids2) = 1 THEN {family.idFields[2]} ELSE {}) |->
     IF key = family.timestampField THEN RangeCondition(gte, lt)
     ELSE IF key = family.idFields[1] /\ OptLength(query.ids1) = 1
     THEN EqCondition(query.ids1[1][1])
     ELSE EqCondition(query.ids2[1][1])]

\* The method up to its await: the locals and the findRecords call it makes, or
\* the RangeError from.toISOString() or to.toISOString() throws on an Invalid
\* Date (gte and lt are the results of these two calls).
FacadeAwait(family, query, range, gte, lt) ==
  IF gte.outcome # "ok" THEN [outcome |-> gte.outcome, locals |-> <<>>]
  ELSE IF lt.outcome # "ok" THEN [outcome |-> lt.outcome, locals |-> <<>>]
  ELSE [outcome |-> "await",
        locals |-> <<[from |-> range.from,
                      to |-> range.to,
                      bucket |-> IF query.bucket = <<>> THEN "day" ELSE query.bucket[1],
                      groupBy |-> IF query.groupBy = <<>> THEN family.defaultGroupBy
                                  ELSE query.groupBy[1],
                      collection |-> family.collection,
                      filter |-> BuildFilter(family, query, gte.str, lt.str)]>>]
FacadeRange(family, query, range) ==
  FacadeAwait(family, query, range, toISOString(range.from), toISOString(range.to))
FacadeCall(family, query, now) == FacadeRange(family, query, resolveRange(query.range, now))

\* The client-side filter applied whenever the list is supplied, an empty list
\* included.
MultiValueFilterWhenSupplied(records, field, opt) ==
  IF opt # <<>> /\ Len(opt[1]) # 1
  THEN SelectSeq(records,
                 LAMBDA r : GetField(r, field).present
                            /\ Contains(opt[1], GetField(r, field).str))
  ELSE records

\* No client-side filter at all.
MultiValueFilterOff(records, field, opt) == records

\* The client-side filter of an identifier list with more than one value.
MultiValueFilter(records, field, opt) ==
  IF OptLength(opt) > 1
  THEN SelectSeq(records,
                 LAMBDA r : GetField(r, field).present
                            /\ Contains(opt[1], GetField(r, field).str))
  ELSE records

\* The return statement, given what aggregateBucketedCounts returned or threw.
StatsResult(family, locals, aggregated) ==
  IF aggregated.outcome # "ok" THEN Thrown(aggregated.outcome, NoDetail)
  ELSE [outcome |-> "ok", detail |-> NoDetail, label |-> family.label,
        range |-> [from |-> toISOString(locals.from).str,
                   to |-> toISOString(locals.to).str],
        bucket |-> locals.bucket, groupBy |-> locals.groupBy,
        totalCount |-> aggregated.totalCount, groups |-> aggregated.groups,
        buckets |-> aggregated.buckets]

\* The method from the moment findRecords resolved with `fetched`.
FacadeResume(family, query, locals, fetched) ==
  StatsResult(
    family, locals,
    aggregateBucketedCounts(
      MultiValueFilter(MultiValueFilter(fetched, family.idFields[1], query.ids1),
                       family.idFields[2], query.ids2),
      family.timestampField, locals.groupBy, locals.bucket, locals.from, locals.to))

\* ------------------------------------- commands/questionnaire-stats.ts etc.
\* Command-line arguments are [from, to, bucket, groupBy, ids1, ids2], each
\* optional; "" and the empty list are falsy.
NoArgs == [from |-> <<>>, to |-> <<>>, bucket |-> <<>>, groupBy |-> <<>>, ids1 |-> <<>>, ids2 |-> <<>>]
TruthyText(opt) == opt # <<>> /\ opt[1] # <<>>
TruthyName(opt) == opt # <<>> /\ opt[1] # ""

\* new Date(to.getTime() - 24 * 60 * 60 * 1000)
DayBefore(d) == IF d.kind = "date" THEN AddMs(d, 0 - MsPerDay) ELSE InvalidDate

\* The end of the range forced to 24 hours after --from when only --from is
\* given.
ArgsToForcedDay(args, now) ==
  IF args.to # <<>> /\ args.to[1] # <<>> THEN ParseDate(args.to[1])
  ELSE IF args.from # <<>> /\ args.from[1] # <<>>
  THEN MkDate(ParseDate(args.from[1]).day + 1, ParseDate(args.from[1]).ms)
  ELSE now

\* parseArgs, the range: set when --from or --to is given.
ArgsTo(args, now) == IF TruthyText(args.to) THEN ParseDate(args.to[1]) ELSE now
ArgsFrom(args, to) == IF TruthyText(args.from) THEN ParseDate(args.from[1]) ELSE DayBefore(to)
ArgsRange(args, to) ==
  IF TruthyText(args.from) \/ TruthyText(args.to)
  THEN <<[from |-> DateValue(ArgsFrom(args, to)), to |-> DateValue(to)]>>
  ELSE <<>>

\* parseArgs(args) of the family's command: the query, or the Error thrown for
\* a bucket or a groupBy outside the valid list.
parseArgs(family, args, now) ==
  IF TruthyName(args.bucket) /\ args.bucket[1] \notin TimeBucket
  THEN [outcome |-> "InvalidBucket",
        detail |-> [value |-> args.bucket[1], valid |-> <<"hour", "day", "week">>],
        query |-> EmptyQuery]
  ELSE IF TruthyName(args.groupBy) /\ ~Contains(family.validGroupBy, args.groupBy[1])
  THEN [outcome |-> "InvalidGroupBy",
        detail |-> [value |-> args.groupBy[1], valid |-> family.validGroupBy],
        query |-> EmptyQuery]
  ELSE [outcome |-> "ok",
        detail |-> NoDetail,
        query |-> [range |-> ArgsRange(args, ArgsTo(args, now)),
                   bucket |-> IF TruthyName(args.bucket) THEN args.bucket ELSE <<>>,
                   groupBy |-> IF TruthyName(args.groupBy) THEN args.groupBy ELSE <<>>,
                   ids1 |-> IF OptLength(args.ids1) > 0 THEN args.ids1 ELSE <<>>,
                   ids2 |-> IF OptLength(args.ids2) > 0 THEN args.ids2 ELSE <<>>]]

\* ------------------------------------------------------------ the callers
VARIABLES
  from,      \* the Date passed as `from`
  to,        \* the Date passed as `to`
  bucket,    \* the granularity passed as `bucket`
  records,   \* the array passed as `records`
  agg,       \* <<>> before aggregateBucketedCounts is called, then <<its result>>
  floored,   \* <<>> before floorToBucket is called, then <<the call's effect>>
  ranges,    \* <<>> before generateBucketRanges is called, then <<its result>>
  cursor,    \* <<>>, or <<the cursor of generateBucketRanges>> once its loop is entered
  store,     \* the reader's store: collection name -> array of records
  request,   \* <<>>, then <<the stats query made: how, family, arguments, clock>>
  pc,        \* "idle", "fetching" (the method is at its await) or "done"
  locals,    \* <<the method's locals>> while and after it awaits the fetch
  findCalls, \* the findRecords calls the reader received, in order
  result,    \* <<>>, then <<what the query returned or threw>>
  queries    \* the method calls made on one shared CollectionStats, in call order

calcVars == <<from, to, bucket, records, agg, floored, ranges, cursor>>
queryVars == <<store, request, pc, locals, findCalls, result, queries>>
vars == <<from, to, bucket, records, agg, floored, ranges, cursor,
          store, request, pc, locals, findCalls, result, queries>>

\* No reader and no stats query.
NoQuery ==
  /\ store = <<>>
  /\ request = <<>>
  /\ pc = "idle"
  /\ locals = <<>>
  /\ findCalls = <<>>
  /\ result = <<>>
  /\ queries = <<>>

\* 2025-06-02, a Monday.
OriginDay == DaysFromCivil(2025, 6, 2)

\* Sample instants of a granularity: every hour, day or sixth day from the
\* origin (a Monday, then a Sunday, a Saturday, ...), the odd ones off the
\* minute, second and millisecond.
Jitter(k) == IF k % 2 = 1 THEN MsPerMinute + MsPerSecond + 1 ELSE 0
Instant(g, k) ==
  CASE g = "hour" -> AddMs(MkDate(OriginDay, 0), k * MsPerHour + Jitter(k))
    [] g = "day" -> MkDate(OriginDay + k, Jitter(k))
    [] g = "week" -> MkDate(OriginDay + 6 * k, Jitter(k))
Instants(g) == {Instant(g, k) : k \in 0 .. MaxTick}

\* The fields a caller's records hold: a timestamp that is missing, the empty
\* string (which new Date does not parse) or an ISO-8601 instant, and a group
\* that is missing or "a".
TimestampValues(g) ==
  {UndefinedField, StringField(<<>>)} \cup {StringField(IsoString(d)) : d \in Instants(g)}
GroupValues == {UndefinedField, StringField(<<97>>)}
SampleRecords(g) ==
  {[submitted_at |-> ts, application_id |-> gv] :
     ts \in TimestampValues(g), gv \in GroupValues}

Init ==
  /\ bucket \in TimeBucket
  /\ from \in Instants(bucket)
  /\ to \in Instants(bucket)
  /\ records = <<>>
  /\ agg = <<>>
  /\ floored = <<>>
  /\ ranges = <<>>
  /\ cursor = <<>>
  /\ NoQuery

\* The caller appends one more record to the array it will pass.
PushRecord ==
  /\ agg = <<>>
  /\ Len(records) < MaxRecords
  /\ \E r \in SampleRecords(bucket) : records' = Append(records, r)
  /\ UNCHANGED <<from, to, bucket, agg, floored, ranges, cursor, queryVars>>

\* aggregateBucketedCounts({records, "submitted_at", "application_id", bucket,
\* from, to}).
CallAggregate ==
  /\ agg = <<>>
  /\ agg' = <<aggregateBucketedCounts(records, "submitted_at", "application_id",
                                      bucket, from, to)>>
  /\ UNCHANGED <<from, to, bucket, records, floored, ranges, cursor, queryVars>>

Next == PushRecord \/ CallAggregate

Spec == Init /\ [][Next]_vars

\* ------------------------------------------- callers of the bucket calculus
\* Instants of every weekday of more than a week (of two days when the
\* granularity is hour): midnight, the top of an
\* hour, inside an hour, and the last millisecond of the day.
TimesOfDay ==
  {0, MsPerHour, MsPerHour + (MsPerHour \div 2) + Jitter(1), MsPerDay - 1}
BucketInstants(g) ==
  {MkDate(OriginDay + d, ms) :
     d \in 0 .. (IF g = "hour" THEN MaxHourDay ELSE MaxDay), ms \in TimesOfDay}

InitBuckets ==
  /\ bucket \in TimeBucket
  /\ from \in BucketInstants(bucket)
  /\ to \in BucketInstants(bucket)
  /\ records = <<>>
  /\ agg = <<>>
  /\ floored = <<>>
  /\ ranges = <<>>
  /\ cursor = <<>>
  /\ NoQuery

\* floorToBucket(from, bucket): the Date passed, as it was and as the call
\* leaves it, and the Date returned.
CallFloorToBucket ==
  /\ floored = <<>>
  /\ floored' = <<[arg |-> from, ret |-> floorToBucket(from, bucket)]>>
  /\ from' = floorToBucketArg(from, bucket)
  /\ UNCHANGED <<to, bucket, records, agg, ranges, cursor, queryVars>>

\* generateBucketRanges(from, to, bucket).
CallGenerateBucketRanges ==
  /\ ranges = <<>>
  /\ ranges' = <<generateBucketRanges(from, to, bucket)>>
  /\ UNCHANGED <<from, to, bucket, records, agg, floored, cursor, queryVars>>

NextBuckets == CallFloorToBucket \/ CallGenerateBucketRanges

SpecBuckets == InitBuckets /\ [][NextBuckets]_vars

\* ------------------------------- generateBucketRanges, one iteration a step
\* while (cursor < to)
LoopContinuesInclusive(c, to_) == ~DateLt(to_, c)
LoopContinues(c, to_) == DateLt(c, to_)

InitEnumerate ==
  /\ bucket \in TimeBucket
  /\ from \in BucketInstants(bucket)
  /\ to \in BucketInstants(bucket)
  /\ records = <<>>
  /\ agg = <<>>
  /\ floored = <<>>
  /\ ranges = <<>>
  /\ cursor = <<>>
  /\ NoQuery

\* const ranges = []; let cursor = floorToBucket(from, bucket);
EnterLoop ==
  /\ pc = "idle"
  /\ pc' = "loop"
  /\ ranges' = <<<<>>>>
  /\ cursor' = <<floorToBucket(from, bucket)>>
  /\ UNCHANGED <<from, to, bucket, records, agg, floored,
                 store, request, locals, findCalls, result, queries>>

\* One iteration of the loop body: push [cursor, next) and move the cursor.
LoopStep ==
  /\ pc = "loop"
  /\ LoopContinues(cursor[1], to)
  /\ ranges' = <<Append(ranges[1],
                        [start |-> toISOString(cursor[1]).str,
                         end |-> toISOString(advanceBucket(cursor[1], bucket)).str])>>
  /\ cursor' = <<advanceBucket(cursor[1], bucket)>>
  /\ UNCHANGED <<from, to, bucket, records, agg, floored, queryVars>>

\* The loop condition fails: return ranges.
LoopExit ==
  /\ pc = "loop"
  /\ ~LoopContinues(cursor[1], to)
  /\ pc' = "returned"
  /\ UNCHANGED <<calcVars, store, request, locals, findCalls, result, queries>>

NextEnumerate == EnterLoop \/ LoopStep \/ LoopExit

\* The call runs synchronously to its end: a step that can be taken is taken.
SpecEnumerate == InitEnumerate /\ [][NextEnumerate]_vars /\ WF_vars(NextEnumerate)

\* ----------------------------------------- callers with written-out dates
\* Midnight of a day of June 2025, and "g1", "g2".
June(d) == MkDate(DaysFromCivil(2025, 6, d), 0)
GroupG1 == <<103, 49>>
GroupG2 == <<103, 50>>

\* The instant d written without milliseconds, YYYY-MM-DDTHH:mm:ssZ.
IsoSeconds(d) == SubSeq(IsoString(d), 1, 19) \o <<90>>

\* Records of "g1" and "g2" at 2025-06-01T10:00:00Z, 2025-06-02T23:00:00Z and
\* 2025-06-03T00:00:00Z.
DatedRecords ==
  {[submitted_at |-> StringField(IsoSeconds(t)), application_id |-> StringField(g)] :
     t \in {AddMs(June(1), 10 * MsPerHour), AddMs(June(2), 23 * MsPerHour), June(3)},
     g \in {GroupG1, GroupG2}}

\* The granularities whose enumeration of these ranges stays short.
DatedBuckets == {"day", "week", "month"}

InitDated ==
  /\ bucket \in DatedBuckets
  /\ from \in {June(1), June(2)}
  /\ to \in {June(3), June(4)}
  /\ records = <<>>
  /\ agg = <<>>
  /\ floored = <<>>
  /\ ranges = <<>>
  /\ cursor = <<>>
  /\ NoQuery

\* The caller appends one more of these records to the array it will pass.
PushDatedRecord ==
  /\ agg = <<>>
  /\ Len(records) < MaxRecords
  /\ \E r \in DatedRecords : records' = Append(records, r)
  /\ UNCHANGED <<from, to, bucket, agg, floored, ranges, cursor, queryVars>>

NextDated == PushDatedRecord \/ CallAggregate

SpecDated == InitDated /\ [][NextDated]_vars

\* ------------------------------------------------ callers of the facade
\* Identifier values "a" and "b"; the second identifier field of a record
\* follows the first ("p" with "a", "q" with "b").
IdA == <<97>>
IdB == <<98>>
SecondId(id) == IF id = IdA THEN <<112>> ELSE <<113>>

\* Records seeded into the reader: "a" on each of the first two sample days,
\* "b" on the second, and "b" without a timestamp.
StoredFields ==
  {<<StringField(IsoString(Instant("day", 0))), IdA>>,
   <<StringField(IsoString(Instant("day", 1))), IdA>>,
   <<StringField(IsoString(Instant("day", 1))), IdB>>,
   <<UndefinedField, IdB>>}
SampleStored(family) ==
  IF family = QuestionnaireResponses
  THEN {[submitted_at |-> f[1], application_id |-> StringField(f[2]),
         publisher_id |-> StringField(SecondId(f[2]))] : f \in StoredFields}
  ELSE {[uploaded_at |-> f[1], uploader_did |-> StringField(f[2]),
         content_type |-> StringField(SecondId(f[2])),
         application_id |-> StringField(IdA)] : f \in StoredFields}

Families == {QuestionnaireResponses, BinaryUploads}

\* The clock reading of new Date(), and the explicit window of the samples.
NowValues == {Instant("day", MaxTick)}
WindowFrom == Instant("day", 0)
WindowTo == Instant("day", MaxTick)

\* Granularities and group fields a caller may write, valid or not.
BucketNames == {"day", "month"}
GroupByNames(family) == {family.validGroupBy[2], "content_type"}
\* The two identifier lists of a query (<<first, second>>): omitted, one value,
\* two values of which one ("c", "r") occurs in no record, or the empty list.
IdC == <<99>>
IdLists ==
  {<<<<>>, <<>>>>,
   <<<<<<IdA>>>>, <<>>>>,
   <<<<<<IdA, IdC>>>>, <<>>>>,
   <<<<>>, <<<<SecondId(IdB)>>>>>>,
   <<<<>>, <<<<SecondId(IdA), <<114>>>>>>>>,
   <<<<<<IdB>>>>, <<<<SecondId(IdB), <<114>>>>>>>>,
   <<<<<<>>>>, <<>>>>,
   <<<<<<IdA>>>>, <<<<>>>>>>}

\* --from and --to: both omitted, both given, only --to, only --from.
ArgRanges ==
  {<<<<>>, <<>>>>,
   <<<<IsoString(WindowFrom)>>, <<IsoString(WindowTo)>>>>,
   <<<<>>, <<IsoString(Instant("day", 1))>>>>,
   <<<<IsoString(WindowFrom)>>, <<>>>>}

\* Command lines: the window with every --bucket and --group-by (possibly "",
\* an empty argument), and every range with every pair of identifier lists.
SampleArgs(family) ==
  {[from |-> <<IsoString(WindowFrom)>>, to |-> <<IsoString(WindowTo)>>,
    bucket |-> b, groupBy |-> g, ids1 |-> <<>>, ids2 |-> <<>>] :
     b \in {<<>>, <<"">>} \cup {<<n>> : n \in BucketNames},
     g \in {<<>>, <<"">>} \cup {<<n>> : n \in GroupByNames(family)}}
  \cup
  {[from |-> r[1], to |-> r[2], bucket |-> <<>>, groupBy |-> <<>>,
    ids1 |-> ids[1], ids2 |-> ids[2]] : r \in ArgRanges, ids \in IdLists}

\* query.range: omitted, two Dates, two ISO strings.
QueryRanges ==
  {<<>>,
   <<[from |-> DateValue(WindowFrom), to |-> DateValue(WindowTo)]>>,
   <<[from |-> StringValue(IsoString(WindowFrom)),
      to |-> StringValue(IsoString(WindowTo))]>>}

\* Queries handed to the facade's methods directly: the window with every
\* bucket and groupBy, and every range with every pair of identifier lists.
SampleQueries(family) ==
  {[range |-> <<[from |-> DateValue(WindowFrom), to |-> DateValue(WindowTo)]>>,
    bucket |-> b, groupBy |-> g, ids1 |-> <<>>, ids2 |-> <<>>] :
     b \in {<<>>} \cup {<<n>> : n \in BucketNames},
     g \in {<<>>} \cup {<<n>> : n \in GroupByNames(family)}}
  \cup
  {[range |-> r, bucket |-> <<>>, groupBy |-> <<>>, ids1 |-> ids[1], ids2 |-> ids[2]] :
     r \in QueryRanges, ids \in IdLists}

InitQuery ==
  /\ from = WindowFrom
  /\ to = WindowTo
  /\ bucket = "day"
  /\ records = <<>>
  /\ agg = <<>>
  /\ floored = <<>>
  /\ ranges = <<>>
  /\ cursor = <<>>
  /\ NoQuery

\* reader.seed(collection, [r]) before the query is made.
Seed ==
  /\ pc = "idle"
  /\ Len(StoreGet(store, COLLECTIONS.QUESTIONNAIRE_RESPONSES))
       + Len(StoreGet(store, COLLECTIONS.BINARY_FILES)) < MaxRecords
  /\ \E family \in Families : \E r \in SampleStored(family) :
       store' = seed(store, family.collection, <<r>>)
  /\ UNCHANGED <<calcVars, request, pc, locals, findCalls, result, queries>>

\* The method calling findRecords a second time with the same arguments.
EnterFacadeFetchTwice(family, query, now) ==
  LET started == FacadeCall(family, query, now)
      call == [collection |-> started.locals[1].collection,
               filter |-> started.locals[1].filter, settled |-> "pending"]
  IN IF started.outcome = "await"
     THEN /\ pc' = "fetching"
          /\ locals' = started.locals
          /\ findCalls' = findCalls \o <<call, call>>
          /\ result' = result
     ELSE /\ pc' = "done"
          /\ locals' = locals
          /\ findCalls' = findCalls
          /\ result' = <<Thrown(started.outcome, NoDetail)>>

\* The method runs up to its await: it throws, or calls findRecords once.
EnterFacade(family, query, now) ==
  LET started == FacadeCall(family, query, now)
  IN IF started.outcome = "await"
     THEN /\ pc' = "fetching"
          /\ locals' = started.locals
          /\ findCalls' = Append(findCalls, [collection |-> started.locals[1].collection,
                                             filter |-> started.locals[1].filter,
                                             settled |-> "pending"])
          /\ result' = result
     ELSE /\ pc' = "done"
          /\ locals' = locals
          /\ findCalls' = findCalls
          /\ result' = <<Thrown(started.outcome, NoDetail)>>

\* new CollectionStats(reader).questionnaireResponses(query) or
\* .binaryUploads(query), called by a program using the SDK.
CallFacade ==
  /\ pc = "idle"
  /\ \E family \in Families : \E query \in SampleQueries(family) : \E now \in NowValues :
       /\ request' = <<[via |-> "sdk", family |-> family, args |-> NoArgs,
                        query |-> query, now |-> now]>>
       /\ EnterFacade(family, query, now)
  /\ UNCHANGED <<calcVars, store, queries>>

\* runQuestionnaireStats(reader, args) or runUploadStats(reader, args):
\* parseArgs, then the facade's method on the query it returned.
RunCommand ==
  /\ pc = "idle"
  /\ \E family \in Families : \E args \in SampleArgs(family) : \E now \in NowValues :
       LET parsed == parseArgs(family, args, now)
       IN /\ request' = <<[via |-> "cli", family |-> family, args |-> args,
                           query |-> parsed.query, now |-> now]>>
          /\ IF parsed.outcome = "ok"
             THEN EnterFacade(family, parsed.query, now)
             ELSE /\ pc' = "done"
                  /\ result' = <<Thrown(parsed.outcome, parsed.detail)>>
                  /\ UNCHANGED <<locals, findCalls>>
  /\ UNCHANGED <<calcVars, store, queries>>

\* The promise of the last findRecords call settles: "resolved", or the name of
\* the error it is rejected with.
Settle(calls, how) == [calls EXCEPT ![Len(calls)].settled = how]

\* The promise of findRecords resolves (the in-memory reader): the method
\* filters, aggregates and returns, or the aggregation throws.
FetchResolves ==
  /\ pc = "fetching"
  /\ pc' = "done"
  /\ findCalls' = Settle(findCalls, "resolved")
  /\ result' = <<FacadeResume(request[1].family, request[1].query, locals[1],
                              findRecords(store, locals[1].collection, locals[1].filter))>>
  /\ UNCHANGED <<calcVars, store, request, locals, queries>>

\* Errors a reader that talks to the network rejects with.
ReaderErrors == {"NetworkError", "TimeoutError"}

\* The method swallowing the reader's error and returning an empty Result.
AwaitRejectedSwallowed(error) ==
  [outcome |-> "ok", detail |-> NoDetail, label |-> "",
   range |-> [from |-> <<>>, to |-> <<>>], bucket |-> "", groupBy |-> "",
   totalCount |-> 0, groups |-> <<>>, buckets |-> <<>>]

\* The await rethrows the error the promise was rejected with; nothing catches
\* it, so the method's promise is rejected with it.
AwaitRejected(error) == Thrown(error, NoDetail)

\* The promise of findRecords rejects.
FetchRejects ==
  /\ pc = "fetching"
  /\ pc' = "done"
  /\ \E error \in ReaderErrors :
       /\ findCalls' = Settle(findCalls, error)
       /\ result' = <<AwaitRejected(error)>>
  /\ UNCHANGED <<calcVars, store, request, locals, queries>>

NextQuery == Seed \/ CallFacade \/ RunCommand \/ FetchResolves \/ FetchRejects

SpecQuery == InitQuery /\ [][NextQuery]_vars

\* ------------------------------- concurrent callers of one shared facade
\* How many method calls are made on the shared CollectionStats.
MaxQueries == 2

\* The day of an instant written as YYYY-MM-DD.
IsoDay(d) == SubSeq(IsoString(d), 1, 10)

\* The records seeded into a collection of the shared reader, in this order:
\* timestamps written by toISOString, one missing, one written without
\* milliseconds and one written as a date.
BatchFields ==
  <<<<StringField(IsoString(Instant("day", 0))), IdA>>,
    <<StringField(IsoString(Instant("day", 1))), IdA>>,
    <<StringField(IsoString(Instant("day", 1))), IdB>>,
    <<UndefinedField, IdB>>,
    <<StringField(IsoSeconds(Instant("day", 1))), IdA>>,
    <<StringField(IsoDay(Instant("day", 0))), IdB>>>>
StoredBatch(family) ==
  [i \in 1 .. Len(BatchFields) |->
     IF family = QuestionnaireResponses
     THEN [submitted_at |-> BatchFields[i][1],
           application_id |-> StringField(BatchFields[i][2]),
           publisher_id |-> StringField(SecondId(BatchFields[i][2]))]
     ELSE [uploaded_at |-> BatchFields[i][1],
           uploader_did |-> StringField(BatchFields[i][2]),
           content_type |-> StringField(SecondId(BatchFields[i][2])),
           application_id |-> StringField(IdA)]]

\* Queries made concurrently: the window, the window's first day, one
\* identifier, two identifiers grouped by the second group field.
ConcurrentQueries(family) ==
  {[EmptyQuery EXCEPT !.range = <<[from |-> DateValue(WindowFrom), to |-> DateValue(WindowTo)]>>],
   [EmptyQuery EXCEPT !.range = <<[from |-> DateValue(WindowFrom),
                                   to |-> DateValue(Instant("day", 1))]>>],
   [EmptyQuery EXCEPT !.range = <<[from |-> DateValue(WindowFrom), to |-> DateValue(WindowTo)]>>,
                      !.ids1 = <<<<IdB>>>>],
   [EmptyQuery EXCEPT !.range = <<[from |-> DateValue(WindowFrom), to |-> DateValue(WindowTo)]>>,
                      !.groupBy = <<family.validGroupBy[2]>>,
                      !.ids1 = <<<<IdA, IdC>>>>]}

InitConcurrent ==
  /\ from = WindowFrom
  /\ to = WindowTo
  /\ bucket = "day"
  /\ records = <<>>
  /\ agg = <<>>
  /\ floored = <<>>
  /\ ranges = <<>>
  /\ cursor = <<>>
  /\ NoQuery

\* reader.seed(collection, batch), once per collection, before any query.
SeedShared ==
  /\ queries = <<>>
  /\ \E family \in Families :
       /\ family.collection \notin DOMAIN store
       /\ store' = seed(store, family.collection, StoredBatch(family))
  /\ UNCHANGED <<calcVars, request, pc, locals, findCalls, result, queries>>

\* One method call from its entry to its await: the query object of the caller
\* (`passed` keeps the value it had when the call was made), the locals and the
\* promise findRecords returned (the in-memory reader has already built the
\* array the promise resolves with), or the error the method threw.
StartedQuery(family, query, now, started, calls, fetched) ==
  IF started.outcome = "await"
  THEN [family |-> family, passed |-> query, query |-> query, now |-> now,
        pc |-> "fetching", locals |-> started.locals, call |-> Len(calls) + 1,
        fetched |-> fetched, result |-> <<>>]
  ELSE [family |-> family, passed |-> query, query |-> query, now |-> now,
        pc |-> "done", locals |-> <<>>, call |-> 0, fetched |-> <<>>,
        result |-> <<Thrown(started.outcome, NoDetail)>>]
FetchedAtCall(store_, started) ==
  IF started.outcome = "await"
  THEN findRecords(store_, started.locals[1].collection, started.locals[1].filter)
  ELSE <<>>
\* findRecords filtering the collection's array in place.
StoreAfterFindInPlace(store_, collectionName, filter) ==
  IF collectionName \in DOMAIN store_
  THEN [store_ EXCEPT ![collectionName] = findRecords(store_, collectionName, filter)]
  ELSE store_

\* The store as findRecords leaves it: store.get only reads, and all.filter
\* returns a new array.
StoreAfterFind(store_, collectionName, filter) == store_
StoreAfterCall(store_, started) ==
  IF started.outcome = "await"
  THEN StoreAfterFind(store_, started.locals[1].collection, started.locals[1].filter)
  ELSE store_
CallsAfter(calls, started) ==
  IF started.outcome = "await"
  THEN Append(calls, [collection |-> started.locals[1].collection,
                      filter |-> started.locals[1].filter, settled |-> "pending"])
  ELSE calls
QueryEnters(family, query, now, started) ==
  /\ queries' = Append(queries,
                       StartedQuery(family, query, now, started, findCalls,
                                    FetchedAtCall(store, started)))
  /\ findCalls' = CallsAfter(findCalls, started)
  /\ store' = StoreAfterCall(store, started)

\* stats.questionnaireResponses(query) or stats.binaryUploads(query) is called
\* while earlier calls may still be at their await.
StartQuery ==
  /\ Len(queries) < MaxQueries
  /\ \E family \in Families : \E query \in ConcurrentQueries(family) : \E now \in NowValues :
       QueryEnters(family, query, now, FacadeCall(family, query, now))
  /\ UNCHANGED <<calcVars, request, pc, locals, result>>

\* One array held by the CollectionStats instance and overwritten by every
\* call: the array the latest call fetched.
AwaitedRecordsOfLastCall(i) == queries[Len(queries)].fetched

\* `records` of call i after its await: the array its own promise resolved with.
AwaitedRecords(i) == queries[i].fetched

\* The objects a call was given as it leaves them when it returns.  The query is
\* only read; records.filter builds new arrays and the loops of
\* aggregateBucketedCounts only read the records; `from` goes to floorToBucket
\* (through generateBucketRanges) and `to` is only compared.
QueryAfterReturn(query) == query
RecordsAfterReturn(fetched) == fetched
LocalsAfterReturn(l) == [l EXCEPT !.from = floorToBucketArg(l.from, l.bucket)]

\* The await of call i is resumed, in any order among the calls in flight: the
\* method filters, aggregates and returns.
QueryReturns ==
  /\ \E i \in 1 .. Len(queries) :
       /\ queries[i].pc = "fetching"
       /\ queries' =
            [queries EXCEPT
               ![i].pc = "done",
               ![i].query = QueryAfterReturn(queries[i].query),
               ![i].fetched = RecordsAfterReturn(queries[i].fetched),
               ![i].locals = <<LocalsAfterReturn(queries[i].locals[1])>>,
               ![i].result = <<FacadeResume(queries[i].family, queries[i].query,
                                            queries[i].locals[1], AwaitedRecords(i))>>]
       /\ findCalls' = [findCalls EXCEPT ![queries[i].call].settled = "resolved"]
  /\ UNCHANGED <<calcVars, store, request, pc, locals, result>>

NextConcurrent == SeedShared \/ StartQuery \/ QueryReturns

SpecConcurrent == InitConcurrent /\ [][NextConcurrent]_vars

\* ------------------------------------------ properties of the bucket calculus
\* a <= b on valid Dates.
DateLe(a, b) == ~DateLt(b, a)

\* Instant t lies in the n-th range of R.
InRange(R, n, t) ==
  DateLe(ParseDate(R[n].start), t) /\ DateLt(t, ParseDate(R[n].end))

\* C5 (inverted window): generateBucketRanges(from, to, g) with from > to
\* returns the empty sequence.
C5_InvertedWindowEmpty ==
  (ranges # <<>> /\ DateLt(to, from)) => ranges[1] = <<>>

\* C6 (bucket coverage): for from < to the ranges are contiguous with strictly
\* increasing starts, the first starts at or before from, the last ends at or
\* after to, and every sampled instant of [from, to) lies in exactly one range.
C6_BucketCoverage ==
  (ranges # <<>> /\ DateLt(from, to)) =>
    LET R == ranges[1]
    IN /\ Len(R) >= 1
       /\ \A n \in 1 .. Len(R) - 1 :
            /\ R[n].end = R[n + 1].start
            /\ DateLt(ParseDate(R[n].start), ParseDate(R[n + 1].start))
       /\ \A n \in 1 .. Len(R) : DateLt(ParseDate(R[n].start), ParseDate(R[n].end))
       /\ DateLe(ParseDate(R[1].start), from)
       /\ DateLe(to, ParseDate(R[Len(R)].end))
       /\ \A t \in BucketInstants(bucket) :
            (DateLe(from, t) /\ DateLt(t, to)) =>
              Cardinality({n \in 1 .. Len(R) : InRange(R, n, t)}) = 1

\* C6 witness: a window neither of whose ends is on a bucket boundary, covered
\* by at least two ranges.
C6_Witness ==
  /\ ranges # <<>>
  /\ DateLt(from, to)
  /\ Len(ranges[1]) >= 2
  /\ DateLt(ParseDate(ranges[1][1].start), from)
  /\ DateLt(to, ParseDate(ranges[1][Len(ranges[1])].end))

\* C7 (floor idempotence): flooring the Date floorToBucket returned gives that
\* Date again, and the call leaves the Date it was passed unchanged.
C7_FloorIdempotent ==
  floored # <<>> =>
    /\ floorToBucket(floored[1].ret, bucket) = floored[1].ret
    /\ from = floored[1].arg

\* C7 witness: floorToBucket returned an instant earlier than the one passed.
C7_Witness ==
  /\ floored # <<>>
  /\ DateLt(floored[1].ret, floored[1].arg)

\* ------------------------------------------- properties of the aggregation
\* The call has returned (no exception left it).
Returned == agg # <<>> /\ agg[1].outcome = "ok"

\* The buckets the call enumerates for its window.
EnumeratedBuckets == generateBucketRanges(from, to, bucket)

\* Record r carries a string timestamp that parses to an instant of [from, to).
ValidInRange(r) ==
  LET ts == GetField(r, "submitted_at")
  IN /\ ts.present
     /\ IsIsoString(ts.str)
     /\ ~DateLt(ParseDate(ts.str), from)
     /\ DateLt(ParseDate(ts.str), to)

RECURSIVE SumCounts(_)
SumCounts(cells) ==
  IF cells = <<>> THEN 0 ELSE Head(cells).count + SumCounts(Tail(cells))

\* The records counted into the cell of bucket b and group g.
CountedIn(b, g) ==
  {i \in 1 .. Len(records) :
     /\ ValidInRange(records[i])
     /\ GroupKeyOf(records[i], "application_id") = g
     /\ ~DateLt(ParseDate(records[i].submitted_at.str), ParseDate(b.start))
     /\ DateLt(ParseDate(records[i].submitted_at.str), ParseDate(b.end))}

\* C1 (density): in every returned result each (enumerated bucket, group of the
\* result's groups list) pair has exactly one cell, zero counts included, so
\* the number of cells is (number of buckets) x (number of groups).
C1_Density ==
  Returned =>
    LET res == agg[1]
        B == EnumeratedBuckets
    IN /\ Len(res.buckets) = Len(B) * Len(res.groups)
       /\ \A i \in 1 .. Len(B), j \in 1 .. Len(res.groups) :
            Cardinality({n \in 1 .. Len(res.buckets) :
                           /\ res.buckets[n].bucketStart = B[i].start
                           /\ res.buckets[n].group = res.groups[j]}) = 1

\* C1 witness: a returned grid of at least two buckets and two groups holding
\* both a zero cell and a counted cell.
C1_Witness ==
  /\ Returned
  /\ Len(EnumeratedBuckets) >= 2
  /\ Len(agg[1].groups) >= 2
  /\ \E n \in 1 .. Len(agg[1].buckets) : agg[1].buckets[n].count = 0
  /\ \E n \in 1 .. Len(agg[1].buckets) : agg[1].buckets[n].count > 0

\* C2 (total conservation): in every returned result totalCount is the sum of
\* the cells' counts and the number of input records whose timestamp is a
\* valid instant of [from, to).
C2_TotalConservation ==
  Returned =>
    /\ agg[1].totalCount = SumCounts(agg[1].buckets)
    /\ agg[1].totalCount = Cardinality({i \in 1 .. Len(records) : ValidInRange(records[i])})

\* C2 witness: a returned result that counted some of its input records and
\* skipped others.
C2_Witness ==
  /\ Returned
  /\ agg[1].totalCount >= 1
  /\ agg[1].totalCount < Len(records)

\* C3 (malformed timestamps are skipped, never an error): every call returns,
\* whatever the records' timestamp fields hold, and a record without a valid
\* timestamp adds nothing to totalCount.
C3_MalformedTimestampsSkipped ==
  agg # <<>> =>
    /\ agg[1].outcome = "ok"
    /\ agg[1].totalCount = Cardinality({i \in 1 .. Len(records) : ValidInRange(records[i])})

\* C4 (empty window): a call with from = to returns zero cells and totalCount 0
\* without an error, for aligned and unaligned instants and any records.
C4_EmptyWindow ==
  (agg # <<>> /\ from = to) =>
    /\ agg[1].outcome = "ok"
    /\ Len(EnumeratedBuckets) = 0
    /\ agg[1].buckets = <<>>
    /\ agg[1].totalCount = 0

\* C8 (sorted groups): the returned groups list is strictly ascending in code
\* unit order (so without duplicates) and holds exactly the group keys of the
\* input records.
C8_SortedGroups ==
  Returned =>
    LET gs == agg[1].groups
    IN /\ \A i \in 1 .. Len(gs) - 1 : StringLt(gs[i], gs[i + 1])
       /\ {gs[i] : i \in 1 .. Len(gs)} =
            {GroupKeyOf(records[i], "application_id") : i \in 1 .. Len(records)}

\* C8 witness: a returned result with two groups whose records were scanned in
\* descending order of group key.
C8_Witness ==
  /\ Returned
  /\ Len(agg[1].groups) >= 2
  /\ Len(records) >= 2
  /\ StringLt(GroupKeyOf(records[2], "application_id"),
              GroupKeyOf(records[1], "application_id"))

\* The last scanned record's group key occurs in no earlier record.
LastGroupIsNew ==
  /\ Len(records) >= 1
  /\ \A i \in 1 .. Len(records) - 1 :
       GroupKeyOf(records[i], "application_id")
         # GroupKeyOf(records[Len(records)], "application_id")

\* C9 (late-group backfill): in a returned result, a group first seen in the
\* last scanned record has exactly one cell for every enumerated bucket, the
\* buckets before its record's own included, holding the number of records
\* counted there (0, or 1 where the record falls).
C9_LateGroupBackfill ==
  (Returned /\ LastGroupIsNew) =>
    LET gk == GroupKeyOf(records[Len(records)], "application_id")
        B == EnumeratedBuckets
        cells == agg[1].buckets
    IN \A i \in 1 .. Len(B) :
         /\ Cardinality({n \in 1 .. Len(cells) :
                           cells[n].bucketStart = B[i].start /\ cells[n].group = gk}) = 1
         /\ \A n \in 1 .. Len(cells) :
              (cells[n].bucketStart = B[i].start /\ cells[n].group = gk) =>
                /\ cells[n].count = Cardinality(CountedIn(B[i], gk))
                /\ cells[n].count \in {0, 1}

\* C9 witness: the last of two records brings a new group and is counted in
\* the second enumerated bucket, so the first bucket's cell is back-filled.
C9_Witness ==
  /\ Returned
  /\ Len(records) >= 2
  /\ LastGroupIsNew
  /\ Len(EnumeratedBuckets) >= 2
  /\ Cardinality(CountedIn(EnumeratedBuckets[2],
                           GroupKeyOf(records[Len(records)], "application_id"))) = 1
  /\ ValidInRange(records[1])


\* ------------------------------------------- properties of the stats queries
\* The granularity the caller wrote (on the command line or in the query given
\* to the facade), when one was written.
WrittenBucket ==
  IF request[1].via = "cli" THEN request[1].args.bucket ELSE request[1].query.bucket
InvalidGranularity ==
  request # <<>> /\ WrittenBucket # <<>> /\ WrittenBucket[1] \notin TimeBucket

\* C10: a stats query of either family whose granularity is not hour, day or
\* week is rejected with an error that names the value and the allowed set,
\* before any fetch: the reader receives no findRecords call.
C10_InvalidGranularityFailsFast ==
  InvalidGranularity =>
    /\ findCalls = <<>>
    /\ pc = "done"
    /\ result[1].outcome = "InvalidBucket"
    /\ result[1].detail = [value |-> WrittenBucket[1], valid |-> <<"hour", "day", "week">>]

\* The group field the caller wrote, when one was written.
WrittenGroupBy ==
  IF request[1].via = "cli" THEN request[1].args.groupBy ELSE request[1].query.groupBy
InvalidGroupField ==
  /\ request # <<>>
  /\ WrittenGroupBy # <<>>
  /\ ~Contains(request[1].family.validGroupBy, WrittenGroupBy[1])

\* C11: a stats query whose group field is neither of the two fields of its
\* family is rejected before any findRecords call, with an error naming the
\* value and the allowed fields (the granularity's error when that is invalid
\* too); it is never aggregated.
C11_InvalidGroupFieldFailsFast ==
  InvalidGroupField =>
    /\ findCalls = <<>>
    /\ pc = "done"
    /\ result[1].outcome # "ok"
    /\ ~InvalidGranularity =>
         /\ result[1].outcome = "InvalidGroupBy"
         /\ result[1].detail = [value |-> WrittenGroupBy[1],
                                valid |-> request[1].family.validGroupBy]

\* The i-th identifier list the caller supplied, on the command line or in the
\* query given to the facade.
SuppliedIds(i) ==
  IF request[1].via = "cli"
  THEN (IF i = 1 THEN request[1].args.ids1 ELSE request[1].args.ids2)
  ELSE (IF i = 1 THEN request[1].query.ids1 ELSE request[1].query.ids2)

\* C12 (filter push-down): the filter of every findRecords call holds the range
\* {$gte: from, $lt: to} on the family's timestamp field, and an equality on an
\* identifier field exactly when one value was supplied for it (that value);
\* a field with two or more values, or none, has no entry.
C12_FilterPushDown ==
  \A n \in 1 .. Len(findCalls) :
    LET family == request[1].family
        filter == findCalls[n].filter
    IN /\ DOMAIN filter =
            {family.timestampField}
            \cup {family.idFields[i] : i \in {j \in 1 .. 2 : OptLength(SuppliedIds(j)) = 1}}
       /\ filter[family.timestampField] =
            [op |-> "range", gte |-> IsoString(locals[1].from),
             lt |-> IsoString(locals[1].to), eq |-> <<>>]
       /\ \A i \in 1 .. 2 :
            OptLength(SuppliedIds(i)) = 1 =>
              filter[family.idFields[i]] =
                [op |-> "eq", gte |-> <<>>, lt |-> <<>>, eq |-> SuppliedIds(i)[1][1]]

\* C12 witness: a findRecords call made for a query with one value for the
\* first identifier field and two for the second; its filter has the range and
\* the first field's equality only.
C12_Witness ==
  /\ Len(findCalls) = 1
  /\ OptLength(SuppliedIds(1)) = 1
  /\ OptLength(SuppliedIds(2)) = 2
  /\ DOMAIN findCalls[1].filter =
       {request[1].family.timestampField, request[1].family.idFields[1]}

\* The query's findRecords call has resolved and the method has finished.
Resolved == pc = "done" /\ findCalls # <<>> /\ findCalls[1].settled = "resolved"

\* Record r's identifier fields are members of every non-empty list supplied.
MemberOfSupplied(r) ==
  \A i \in 1 .. 2 :
    OptLength(SuppliedIds(i)) >= 1 =>
      /\ GetField(r, request[1].family.idFields[i]).present
      /\ Contains(SuppliedIds(i)[1], GetField(r, request[1].family.idFields[i]).str)

\* The records of the family's collection that pass the range predicate alone
\* and are members of every supplied list.
MemberRecords ==
  SelectSeq(findRecords(store, request[1].family.collection,
                        [key \in {request[1].family.timestampField} |->
                           locals[1].filter[request[1].family.timestampField]]),
            MemberOfSupplied)

\* C13 (two-tier filtering is set membership): whatever mix of one-value lists
\* (pushed to the reader) and multi-value lists (applied after the fetch) a
\* query has, its Result is the one the aggregation gives on exactly the
\* records in range that are members of every supplied non-empty list.
C13_TwoTierFiltering ==
  Resolved =>
    result[1] =
      StatsResult(request[1].family, locals[1],
                  aggregateBucketedCounts(MemberRecords,
                                          request[1].family.timestampField,
                                          locals[1].groupBy, locals[1].bucket,
                                          locals[1].from, locals[1].to))

\* C13 witness: a finished query with one value for the first field and two
\* for the second, which counted a record and left another of the collection
\* out.
C13_Witness ==
  /\ Resolved
  /\ OptLength(SuppliedIds(1)) = 1
  /\ OptLength(SuppliedIds(2)) = 2
  /\ result[1].outcome = "ok"
  /\ result[1].totalCount >= 1
  /\ Len(MemberRecords) < Len(StoreGet(store, request[1].family.collection))

\* C14 (fetch exactly once): the reader never receives a second findRecords
\* call; while the method awaits the fetch one call has been made and nothing
\* has been aggregated yet; every query that completes with a Result made
\* exactly one call, on its family's collection.
C14_FetchExactlyOnce ==
  /\ Len(findCalls) <= 1
  /\ pc = "fetching" => (Len(findCalls) = 1 /\ result = <<>>)
  /\ (pc = "done" /\ result[1].outcome = "ok") =>
       /\ Len(findCalls) = 1
       /\ findCalls[1].collection = request[1].family.collection

\* C14 witness: a query that completed with a Result counting a record.
C14_Witness ==
  /\ pc = "done"
  /\ result[1].outcome = "ok"
  /\ result[1].totalCount >= 1
  /\ Len(findCalls) = 1

\* C15 (reader failure propagates): when the promise of findRecords is
\* rejected, the query is rejected with that very error, carries no Result, and
\* the reader receives no further call.
C15_ReaderFailurePropagates ==
  \A n \in 1 .. Len(findCalls) :
    findCalls[n].settled \in ReaderErrors =>
      /\ pc = "done"
      /\ result[1].outcome = findCalls[n].settled
      /\ result[1].buckets = <<>> /\ result[1].groups = <<>> /\ result[1].totalCount = 0
      /\ Len(findCalls) = 1

\* C15 witness: the fetch of a query over a seeded collection was rejected
\* with a timeout.
C15_Witness ==
  /\ pc = "done"
  /\ Len(findCalls) = 1
  /\ findCalls[1].settled = "TimeoutError"
  /\ result[1].outcome = "TimeoutError"
  /\ Len(StoreGet(store, request[1].family.collection)) >= 1

\* The instant 24 hours before d.
DayEarlier(d) == MkDate(d.day - 1, d.ms)

\* The instant a range end written by the caller denotes.
InstantOf(value) == IF value.type = "string" THEN ParseDate(value.str) ELSE value.date

\* The range the query is to cover, from what the caller wrote and the clock
\* reading of the call: written ends as they are, a missing `to` now, a missing
\* `from` 24 hours before `to`.
ExpectedTo ==
  IF request[1].via = "cli"
  THEN (IF request[1].args.to # <<>> THEN ParseDate(request[1].args.to[1])
        ELSE request[1].now)
  ELSE (IF request[1].query.range # <<>> THEN InstantOf(request[1].query.range[1].to)
        ELSE request[1].now)
ExpectedFrom ==
  IF request[1].via = "cli"
  THEN (IF request[1].args.from # <<>> THEN ParseDate(request[1].args.from[1])
        ELSE DayEarlier(ExpectedTo))
  ELSE (IF request[1].query.range # <<>> THEN InstantOf(request[1].query.range[1].from)
        ELSE DayEarlier(ExpectedTo))

IsSubmissionQuery == request[1].family.label = "Questionnaire responses"

\* C17 (defaults per family): an omitted granularity resolves to day and a
\* written one is kept; an omitted group field resolves to application_id for
\* submissions and uploader_did for uploads; the fetch goes to the family's
\* collection with the range on the family's timestamp field; the Result
\* reports the resolved granularity and group field.
C17_FamilyDefaults ==
  locals # <<>> =>
    /\ WrittenBucket = <<>> => locals[1].bucket = "day"
    /\ (WrittenBucket # <<>> /\ WrittenBucket[1] \in TimeBucket) =>
         locals[1].bucket = WrittenBucket[1]
    /\ WrittenGroupBy = <<>> =>
         locals[1].groupBy = (IF IsSubmissionQuery THEN "application_id" ELSE "uploader_did")
    /\ (WrittenGroupBy # <<>> /\ ~InvalidGroupField /\ WrittenGroupBy[1] # "") =>
         locals[1].groupBy = WrittenGroupBy[1]
    /\ findCalls[1].collection =
         (IF IsSubmissionQuery THEN "questionnaire_responses" ELSE "binary_files")
    /\ findCalls[1].filter[IF IsSubmissionQuery THEN "submitted_at" ELSE "uploaded_at"].op
         = "range"
    /\ (pc = "done" /\ result[1].outcome = "ok") =>
         /\ result[1].bucket = locals[1].bucket
         /\ result[1].groupBy = locals[1].groupBy

\* C17 witness: an upload query written without granularity and group field
\* completed with a Result by day and uploader_did that counted a record.
C17_Witness ==
  /\ pc = "done"
  /\ ~IsSubmissionQuery
  /\ WrittenBucket = <<>>
  /\ WrittenGroupBy = <<>>
  /\ result[1].outcome = "ok"
  /\ result[1].bucket = "day"
  /\ result[1].groupBy = "uploader_did"
  /\ result[1].totalCount >= 1

\* ------------------------------ further properties of the aggregation
\* The group key record r is to get: "unknown" when its group field is absent,
\* else the field's value.
SentinelKey(r) ==
  IF r.application_id.present THEN r.application_id.str
  ELSE <<117, 110, 107, 110, 111, 119, 110>>

\* The timestamp of record r is a string that new Date does not parse.
UnparseableTimestamp(r) ==
  r.submitted_at.present /\ ~IsIsoString(r.submitted_at.str)

\* The records with key k whose timestamp is a valid instant of [from, to)
\* inside bucket b.
KeyedIn(b, k) ==
  {i \in 1 .. Len(records) :
     /\ SentinelKey(records[i]) = k
     /\ ValidInRange(records[i])
     /\ ~DateLt(ParseDate(records[i].submitted_at.str), ParseDate(b.start))
     /\ DateLt(ParseDate(records[i].submitted_at.str), ParseDate(b.end))}

\* C18 (sentinel group): a record without a group field gets the key
\* "unknown", any other record its field's value; the key is in the groups
\* list and the record is counted in the cell of its key when its timestamp is
\* in range.  A missing group field makes no call fail.
C18_SentinelGroup ==
  agg # <<>> =>
    /\ (\A i \in 1 .. Len(records) : ~UnparseableTimestamp(records[i])) =>
         agg[1].outcome = "ok"
    /\ Returned =>
         \A i \in 1 .. Len(records) :
           /\ Contains(agg[1].groups, SentinelKey(records[i]))
           /\ \A n \in 1 .. Len(agg[1].buckets) :
                agg[1].buckets[n].group = SentinelKey(records[i]) =>
                  agg[1].buckets[n].count =
                    Cardinality(KeyedIn([start |-> agg[1].buckets[n].bucketStart,
                                         end |-> agg[1].buckets[n].bucketEnd],
                                        SentinelKey(records[i])))

\* C18 witness: a returned result that counted a record without a group field
\* under "unknown", next to a record of group "a".
C18_Witness ==
  /\ Returned
  /\ Len(records) = 2
  /\ \E i \in 1 .. 2 : ~records[i].application_id.present /\ ValidInRange(records[i])
  /\ \E i \in 1 .. 2 : records[i].application_id.present
  /\ \E n \in 1 .. Len(agg[1].buckets) :
       /\ agg[1].buckets[n].group = <<117, 110, 107, 110, 111, 119, 110>>
       /\ agg[1].buckets[n].count >= 1

\* Group key k belongs to records of the input, none of which has a timestamp
\* that is a valid instant of [from, to).
OnlyOutOfRange(k) ==
  /\ \E i \in 1 .. Len(records) : SentinelKey(records[i]) = k
  /\ \A i \in 1 .. Len(records) :
       SentinelKey(records[i]) = k => ~ValidInRange(records[i])

\* C19 (seed groups come from the full input): a group all of whose records
\* lie outside [from, to) is in the result's groups list and has exactly one
\* cell, of count 0, for every enumerated bucket.
C19_SeedGroupsFromFullInput ==
  Returned =>
    LET R == EnumeratedBuckets
        cells == agg[1].buckets
    IN \A i \in 1 .. Len(records) :
         OnlyOutOfRange(SentinelKey(records[i])) =>
           /\ Contains(agg[1].groups, SentinelKey(records[i]))
           /\ \A b \in 1 .. Len(R) :
                /\ Cardinality({n \in 1 .. Len(cells) :
                                  /\ cells[n].bucketStart = R[b].start
                                  /\ cells[n].group = SentinelKey(records[i])}) = 1
                /\ \A n \in 1 .. Len(cells) :
                     (/\ cells[n].bucketStart = R[b].start
                      /\ cells[n].group = SentinelKey(records[i])) =>
                       cells[n].count = 0

\* C19 witness: group "a" has one record, with a valid timestamp outside the
\* window, next to a counted record of another group, over at least two
\* buckets.
C19_Witness ==
  /\ Returned
  /\ Len(records) = 2
  /\ Len(EnumeratedBuckets) >= 2
  /\ agg[1].totalCount = 1
  /\ \E i \in 1 .. 2 :
       /\ records[i].application_id = StringField(<<97>>)
       /\ records[i].submitted_at.present
       /\ IsIsoString(records[i].submitted_at.str)
       /\ ~ValidInRange(records[i])
  /\ Contains(agg[1].groups, <<97>>)

\* Scenario A: granularity day, range 2025-06-01T00:00:00Z to
\* 2025-06-03T00:00:00Z, and the two records of "g1" at 2025-06-01T10:00:00Z
\* and 2025-06-02T23:00:00Z.
ScenarioA ==
  /\ bucket = "day"
  /\ from = June(1)
  /\ to = June(3)
  /\ records =
       <<[submitted_at |-> StringField(IsoSeconds(AddMs(June(1), 10 * MsPerHour))),
          application_id |-> StringField(GroupG1)],
         [submitted_at |-> StringField(IsoSeconds(AddMs(June(2), 23 * MsPerHour))),
          application_id |-> StringField(GroupG1)]>>

\* C20 (scenario A): the result has exactly two cells, (2025-06-01, g1, 1) and
\* (2025-06-02, g1, 1), and totalCount 2.
C20_ScenarioA ==
  (ScenarioA /\ agg # <<>>) =>
    /\ agg[1].outcome = "ok"
    /\ agg[1].totalCount = 2
    /\ agg[1].groups = <<GroupG1>>
    /\ agg[1].buckets =
         <<[bucketStart |-> IsoString(June(1)), bucketEnd |-> IsoString(June(2)),
            group |-> GroupG1, count |-> 1],
           [bucketStart |-> IsoString(June(2)), bucketEnd |-> IsoString(June(3)),
            group |-> GroupG1, count |-> 1]>>

\* C20 witness: the call of scenario A has returned.
C20_Witness == ScenarioA /\ agg # <<>> /\ agg[1].outcome = "ok"

\* ------------------------------------------ properties of concurrent queries
\* What the method call q returns when it is the only call made on the reader.
RunAloneFrom(q, started) ==
  IF started.outcome = "await"
  THEN FacadeResume(q.family, q.query, started.locals[1],
                    findRecords(store, started.locals[1].collection,
                                started.locals[1].filter))
  ELSE Thrown(started.outcome, NoDetail)
RunAlone(q) == RunAloneFrom(q, FacadeCall(q.family, q.query, q.now))

\* C21 (query isolation under concurrency): however the calls on one shared
\* reader interleave at their awaits, every call that has returned returned
\* exactly the Result it returns when run alone.
C21_QueryIsolation ==
  \A i \in 1 .. Len(queries) :
    queries[i].pc = "done" => queries[i].result = <<RunAlone(queries[i])>>

\* C21 witness: the second call started and returned while the first was still
\* at its await, and the two calls have different non-empty Results.
C21_Witness ==
  /\ Len(queries) = 2
  /\ queries[1].pc = "fetching"
  /\ queries[2].pc = "done"
  /\ queries[2].result[1].outcome = "ok"
  /\ queries[2].result[1].totalCount > 0
  /\ RunAlone(queries[1]).totalCount > 0
  /\ RunAlone(queries[1]) # queries[2].result[1]

\* What was seeded: the batch of every collection the store has.
SeededStore ==
  [c \in DOMAIN store |->
     IF c = QuestionnaireResponses.collection THEN StoredBatch(QuestionnaireResponses)
     ELSE StoredBatch(BinaryUploads)]

\* The resolved range of call q, as resolveRange returned it.
ResolvedRange(q) == resolveRange(q.passed.range, q.now)

\* C22 (inputs are left unchanged): after any sequence of calls the store holds
\* exactly what was seeded, every query object has the value it was passed
\* with, and of every call that reached its await the fetched records and the
\* from/to instants are what they were before the aggregation.
C22_InputsUnchanged ==
  /\ store = SeededStore
  /\ \A i \in 1 .. Len(queries) :
       /\ queries[i].query = queries[i].passed
       /\ queries[i].locals # <<>> =>
            /\ queries[i].locals[1].from = ResolvedRange(queries[i]).from
            /\ queries[i].locals[1].to = ResolvedRange(queries[i]).to
            /\ queries[i].fetched =
                 findRecords(SeededStore, queries[i].locals[1].collection,
                             queries[i].locals[1].filter)

\* C22 witness: two calls on the same seeded collection have returned, the
\* reader's filter of the first kept only part of the collection, and the
\* in-memory filter of the second dropped a fetched record.
C22_Witness ==
  /\ Len(queries) = 2
  /\ \A i \in 1 .. 2 : queries[i].pc = "done" /\ queries[i].result[1].outcome = "ok"
  /\ queries[1].family = queries[2].family
  /\ queries[1].passed.ids1 = <<<<IdB>>>>
  /\ queries[1].fetched # <<>>
  /\ Len(queries[1].fetched) < Len(store[queries[1].family.collection])
  /\ OptLength(queries[2].passed.ids1) = 2
  /\ queries[2].result[1].totalCount < Len(queries[2].fetched)

\* The timestamp field of record r of call q's collection, and whether the
\* range condition of q's filter keeps r.
TimestampOf(q, r) == GetField(r, q.family.timestampField)
RangeKeeps(q, r) ==
  EntryKeeps(TimestampOf(q, r), q.locals[1].filter[q.family.timestampField])
Chronological(q, r) ==
  ~OutOfRange(ParseDate(TimestampOf(q, r).str), q.locals[1].from, q.locals[1].to)

\* C23 (reader range filter agrees with chronology): a stored record whose
\* timestamp is an ISO-8601 string passes the {$gte, $lt} condition of a call's
\* filter exactly when its parsed timestamp lies in [from, to).
C23_RangeFilterAgreesWithChronology ==
  \A i \in 1 .. Len(queries) :
    (queries[i].locals # <<>> /\ queries[i].locals[1].collection \in DOMAIN store) =>
      \A k \in 1 .. Len(store[queries[i].locals[1].collection]) :
        LET r == store[queries[i].locals[1].collection][k]
        IN (TimestampOf(queries[i], r).present
            /\ IsIsoString(TimestampOf(queries[i], r).str)) =>
             (RangeKeeps(queries[i], r) <=> Chronological(queries[i], r))

\* ----------------------------------- further properties of the bucket calculus
\* Whole days from instant a back to instant b.
DaysBack(a, b) == a.day - b.day

\* C24 (floor lands on the containing boundary): floorToBucket(t, g) is the top
\* of t's UTC hour, t's UTC midnight, or 00:00 UTC of the Monday on or before t
\* (6 days back from a Sunday, dayOfWeek - 1 days back otherwise), and
\* floorToBucket(t, g) <= t < advanceBucket(floorToBucket(t, g), g).
C24_FloorOnContainingBoundary ==
  floored # <<>> =>
    LET t == floored[1].arg
        f == floored[1].ret
    IN /\ f.kind = "date"
       /\ DateLe(f, t)
       /\ DateLt(t, advanceBucket(f, bucket))
       /\ bucket = "hour" => f.day = t.day /\ f.ms % MsPerHour = 0 /\ t.ms - f.ms < MsPerHour
       /\ bucket = "day" => f.day = t.day /\ f.ms = 0
       /\ bucket = "week" =>
            /\ f.ms = 0
            /\ getUTCDay(f) = 1
            /\ DaysBack(t, f) = (IF getUTCDay(t) = 0 THEN 6 ELSE getUTCDay(t) - 1)

\* C24 witness: a Sunday instant off midnight was floored to its week.
C24_Witness ==
  /\ floored # <<>>
  /\ bucket = "week"
  /\ getUTCDay(floored[1].arg) = 0
  /\ floored[1].arg.ms > 0
  /\ DaysBack(floored[1].arg, floored[1].ret) = 6

\* The length of one unit of granularity g in milliseconds.
UnitMs(g) ==
  CASE g = "hour" -> MsPerHour
    [] g = "day" -> MsPerDay
    [] g = "week" -> 7 * MsPerDay

\* C25 (buckets are aligned and exactly one unit wide): every range
\* generateBucketRanges returns ends at advanceBucket of its start, which is
\* its start plus exactly 1 hour, 24 hours or 7 times 24 hours, and its start
\* is a fixed point of floorToBucket.
C25_AlignedUnitBuckets ==
  ranges # <<>> =>
    \A n \in 1 .. Len(ranges[1]) :
      LET s == ParseDate(ranges[1][n].start)
          e == ParseDate(ranges[1][n].end)
      IN /\ s.kind = "date"
         /\ e = advanceBucket(s, bucket)
         /\ e = AddMs(s, UnitMs(bucket))
         /\ floorToBucket(s, bucket) = s

\* C25 witness: a window starting off a bucket boundary gave several ranges.
C25_Witness ==
  /\ ranges # <<>>
  /\ Len(ranges[1]) >= 2
  /\ floorToBucket(from, bucket) # from

\* Milliseconds from instant a to instant b, and the number of unit steps from
\* floorToBucket(from, bucket) needed to reach or pass `to`.
MsBetween(a, b) == (b.day - a.day) * MsPerDay + (b.ms - a.ms)
StepsToReach(ms, unit) == IF ms <= 0 THEN 0 ELSE (ms + unit - 1) \div unit
UnitSteps == StepsToReach(MsBetween(floorToBucket(from, bucket), to), UnitMs(bucket))

\* C26 (enumeration terminates): for every window and granularity the loop of
\* generateBucketRanges is left, with as many ranges as unit steps lead from
\* floorToBucket(from) to or past `to`, and every iteration moves the cursor
\* forward.
C26_EnumerationTerminates ==
  /\ <>(pc = "returned" /\ Len(ranges[1]) = UnitSteps)
  /\ [][(cursor # <<>> /\ cursor' # cursor) => DateLt(cursor[1], cursor'[1])]_vars

\* C26 witness: the loop was left after several iterations, the last range
\* reaching past `to`.
C26_Witness ==
  /\ pc = "returned"
  /\ cursor # <<>>
  /\ Len(ranges[1]) >= 3
  /\ DateLt(to, cursor[1])

\* ------------------------------ properties of the order of the returned cells
\* C27 (cell order): with B enumerated buckets and G groups the returned cell
\* at index i * G + j (counted from 0) is the cell of bucket i and group j and
\* carries that bucket's start and end; bucket starts ascend and groups ascend.
C27_CellOrder ==
  Returned =>
    LET R == EnumeratedBuckets
        groups == agg[1].groups
        G == Len(agg[1].groups)
    IN /\ Len(agg[1].buckets) = Len(R) * G
       /\ \A i \in 0 .. Len(R) - 1 : \A j \in 0 .. G - 1 :
            /\ agg[1].buckets[i * G + j + 1].bucketStart = R[i + 1].start
            /\ agg[1].buckets[i * G + j + 1].bucketEnd = R[i + 1].end
            /\ agg[1].buckets[i * G + j + 1].group = groups[j + 1]
       /\ \A n \in 1 .. Len(agg[1].buckets) - 1 :
            \/ StringLt(agg[1].buckets[n].bucketStart, agg[1].buckets[n + 1].bucketStart)
            \/ /\ agg[1].buckets[n].bucketStart = agg[1].buckets[n + 1].bucketStart
               /\ StringLt(agg[1].buckets[n].group, agg[1].buckets[n + 1].group)

\* C27 witness: a result of at least two buckets and two groups.
C27_Witness ==
  /\ Returned
  /\ Len(EnumeratedBuckets) >= 2
  /\ Len(agg[1].groups) = 2
  /\ agg[1].totalCount = 2

\* C28 (implicit): the group key of every record the counting pass reaches is
\* already in the set the first pass built from the same records, so the
\* late-discovery branch is never taken and the returned groups list is the
\* sorted seed set.
C28_BackFillNeverTaken ==
  agg # <<>> =>
    /\ ~agg[1].backfilled
    /\ Returned => agg[1].groups = SortStrings(SeedGroups(records, "application_id"))

\* C28 witness: two records of different groups were both counted.
C28_Witness ==
  /\ Returned
  /\ Len(records) = 2
  /\ LastGroupIsNew
  /\ \A i \in 1 .. 2 : ValidInRange(records[i])
  /\ agg[1].totalCount = 2
  /\ Len(agg[1].groups) = 2

\* The orders the records can be passed in: the permutations of 1 .. n.
Orders(n) == {f \in [1 .. n -> 1 .. n] : \A i, j \in 1 .. n : f[i] = f[j] => i = j}
Reordered(f) == [i \in 1 .. Len(records) |-> records[f[i]]]

\* C29 (implicit): the result does not depend on the order of the records:
\* every permutation of the same records gives the same groups, cells (order
\* and counts) and totalCount with the same window, granularity and fields.
C29_OrderIndependent ==
  agg # <<>> =>
    \A f \in Orders(Len(records)) :
      aggregateBucketedCounts(Reordered(f), "submitted_at", "application_id",
                              bucket, from, to) = agg[1]

\* C29 witness: two records of different groups and days, passed with the
\* greater group first, were both counted.
C29_Witness ==
  /\ Returned
  /\ Len(records) = 2
  /\ records[1].submitted_at # records[2].submitted_at
  /\ GroupKeyOf(records[1], "application_id") = GroupG2
  /\ GroupKeyOf(records[2], "application_id") = GroupG1
  /\ \A i \in 1 .. 2 : ValidInRange(records[i])
  /\ agg[1].totalCount = 2

\* ------------------------------------ properties of empty identifier lists
\* An identifier list written as the empty list, and the same request with
\* every such list left out: the query handed to the facade, or the query
\* parseArgs makes of the command line.
EmptyList == <<<<>>>>
WithoutEmpty(opt) == IF opt = EmptyList THEN <<>> ELSE opt
WrittenIds(k) ==
  IF request[1].via = "cli"
  THEN (IF k = 1 THEN request[1].args.ids1 ELSE request[1].args.ids2)
  ELSE (IF k = 1 THEN request[1].query.ids1 ELSE request[1].query.ids2)
QueryWithoutEmptyLists ==
  IF request[1].via = "cli"
  THEN parseArgs(request[1].family,
                 [request[1].args EXCEPT !.ids1 = WithoutEmpty(@), !.ids2 = WithoutEmpty(@)],
                 request[1].now).query
  ELSE [request[1].query EXCEPT !.ids1 = WithoutEmpty(@), !.ids2 = WithoutEmpty(@)]

\* What the facade returns for query q on the store as it is.
ResultOfStarted(q, started) ==
  IF started.outcome = "await"
  THEN FacadeResume(request[1].family, q, started.locals[1],
                    findRecords(store, started.locals[1].collection,
                                started.locals[1].filter))
  ELSE Thrown(started.outcome, NoDetail)
ResultOf(q) == ResultOfStarted(q, FacadeCall(request[1].family, q, request[1].now))

\* C30 (implicit): an identifier list supplied as the empty list behaves as an
\* omitted one: the filter of the fetch has no equality on its field, and the
\* Result is the Result of the same request without the list.
C30_EmptyListAsOmitted ==
  (request # <<>> /\ (WrittenIds(1) = EmptyList \/ WrittenIds(2) = EmptyList)) =>
    /\ \A k \in 1 .. 2 :
         (WrittenIds(k) = EmptyList /\ locals # <<>>) =>
           request[1].family.idFields[k] \notin DOMAIN locals[1].filter
    /\ Resolved => result[1] = ResultOf(QueryWithoutEmptyLists)

\* C30 witness: a query with an empty identifier list returned a Result that
\* counts records.
C30_Witness ==
  /\ Resolved
  /\ request[1].via = "sdk"
  /\ WrittenIds(1) = EmptyList
  /\ result[1].outcome = "ok"
  /\ result[1].totalCount >= 2

=============================================================================
